---- MODULE Spec2Model ----
(***************************************************************************)
(* aduana: a read-only client of the Docker Registry HTTP API v2.          *)
(*                                                                         *)
(* The model follows src/src/lib.rs and src/src/registry.rs.  A call of   *)
(* images() or details() is a sequence of steps separated by the awaits   *)
(* on the registry's answers: the step that starts the call builds the    *)
(* client and issues the first request, and each later step consumes one  *)
(* answer, parses it and either returns or issues the next request.       *)
(*                                                                         *)
(* Two specifications share these steps.  Under Spec the registry may     *)
(* answer every request with anything (it may change at any time).  Under *)
(* SpecUnchanged the registry is unchanged: a URL that was answered once  *)
(* is answered the same way ever after.                                   *)
(***************************************************************************)
EXTENDS Integers, Sequences, FiniteSets, TLC

VARIABLES
    url,      \* AduanaInspector.url
    cert,     \* AduanaInspector.cert : Option<Vec<u8>>, <<>> is None, <<b>> is Some(b)
    handles,  \* the Vec<AduanaImage> the caller holds (last successful images())
    pc,       \* "idle", or the answer the running call awaits
    op,       \* the call running, or the last one that ran
    catalog,  \* images(): catalog.repositories
    images,   \* images(): the Vec being built
    i,        \* images(): position of the for loop in catalog.repositories
    self,     \* details(): the handle it was called on
    tag,      \* details(): its argument
    reqs,     \* the requests the call has put on the network, in order
    resps,    \* the answers the call has received, in order
    err,      \* the failure that ended the call, if any
    ret,      \* what the call returned (Pending while it runs)
    reg,      \* SpecUnchanged: the answers the unchanged registry has given so far
    seen,     \* SpecUnchanged: the results of the details() calls completed so far
    calls     \* SpecUnchanged: number of calls started

vars == <<url, cert, handles, pc, op, catalog, images, i, self, tag,
          reqs, resps, err, ret, reg, seen, calls>>

(***************************************************************************)
(* Bounds and input sets                                                   *)
(***************************************************************************)
MaxRepos == 2
MaxCalls == 4

Names == {"a", "b"}
Tags == {"t1", "t2"}
Digests == {"sha256:1", "sha256:2"}
TagLists == {<<>>, <<"t1", "t2">>, <<"t2", "t1">>, <<"t1", "t1">>}
Catalogs == UNION {[1..n -> Names] : n \in 0..MaxRepos}

GoodUrl == "http://localhost:5000"
WrongUrl == ":xx:x"
BaseUrls == {GoodUrl, WrongUrl}

GoodPem == "-----BEGIN CERTIFICATE-----"
BadPem == "not a certificate"
Pems == {GoodPem, BadPem}

None == <<>>
Some(x) == <<x>>

(***************************************************************************)
(* URLs (the format! calls)                                                *)
(***************************************************************************)
CatalogUrl(base) == base \o "/v2/_catalog"
TagsUrl(base, name) == base \o "/v2/" \o name \o "/tags/list"
ManifestUrl(base, name, t) == base \o "/v2/" \o name \o "/manifests/" \o t
\* faulty variant: the blob is asked for at one fixed digest
BlobUrlFixedDigest(base, name, digest) == base \o "/v2/" \o name \o "/blobs/" \o "sha256:1"
\* faulty variant: the digest is cached per repository: once a manifest of the
\* repository has been answered, its digest is used for every tag
BlobUrlCachedDigest(base, name, digest) ==
    LET known == {t \in {"t1", "t2"} :
                    /\ ManifestUrl(base, name, t) \in DOMAIN reg
                    /\ reg[ManifestUrl(base, name, t)].t = "body"}
        first == CHOOSE t \in known : TRUE
    IN  base \o "/v2/" \o name \o "/blobs/" \o
        (IF known = {} THEN digest
         ELSE reg[ManifestUrl(base, name, first)].json.config.digest)
BlobUrl(base, name, digest) == base \o "/v2/" \o name \o "/blobs/" \o digest

Paths ==
    {CatalogUrl("")} \cup {TagsUrl("", n) : n \in Names}
    \cup {ManifestUrl("", n, t) : n \in Names, t \in Tags}
    \cup {BlobUrl("", n, d) : n \in Names, d \in Digests}

\* client.get(&url): the string parses as a URL or the request cannot be built
IntoUrl(u) == \E p \in Paths : u = GoodUrl \o p

(***************************************************************************)
(* Errors                                                                  *)
(***************************************************************************)
Pending == [tag |-> "Pending", images |-> <<>>, details |-> <<>>, url |-> "", msg |-> ""]
OkImages(v) == [tag |-> "Ok", images |-> v, details |-> <<>>, url |-> "", msg |-> ""]
OkDetails(d) == [tag |-> "Ok", images |-> <<>>, details |-> <<d>>, url |-> "", msg |-> ""]
Connection(u, reason) ==
    [tag |-> "Connection", images |-> <<>>, details |-> <<>>, url |-> u, msg |-> reason]
Runtime(m) ==
    [tag |-> "Runtime", images |-> <<>>, details |-> <<>>, url |-> "", msg |-> m]

\* a reqwest::Error: its kind and the URL it carries, if any
ReqwestError(kind, u) == [kind |-> kind, url |-> u]

\* faulty variant: only connect errors are Connection errors
FromReqwestConnectOnly(error) ==
    IF error.kind = "connect"
    THEN [tag |-> "Connection", images |-> <<>>, details |-> <<>>,
          url |-> IF error.url = <<>> THEN "invalid" ELSE error.url[1], msg |-> error.kind]
    ELSE [tag |-> "Runtime", images |-> <<>>, details |-> <<>>, url |-> "",
          msg |-> "Failed to get images from"]
\* faulty variant: every reqwest error is a Connection error
FromReqwestAllConnection(error) ==
    [tag |-> "Connection", images |-> <<>>, details |-> <<>>,
     url |-> IF error.url = <<>> THEN "invalid" ELSE error.url[1], msg |-> error.kind]

FromReqwest(error) ==
    IF error.kind \in {"connect", "builder"}
    THEN Connection(IF error.url = None THEN "invalid" ELSE error.url[1], error.kind)
    ELSE Runtime("Failed to get images from")

NoErr == [stage |-> "none", kind |-> "none", url |-> None]
ErrAt(stage, error) == [stage |-> stage, kind |-> error.kind, url |-> error.url]

(***************************************************************************)
(* client()                                                                *)
(***************************************************************************)
FromPem(bytes) == bytes = GoodPem

\* faulty variant: the certificate is not looked at
clientNoCert(pem, b) ==
    IF ~b
    THEN [ok |-> FALSE, kind |-> "builder", msg |-> "Failed to build client!"]
    ELSE [ok |-> TRUE, kind |-> "none", msg |-> ""]

\* b: whether builder.build() succeeds
client(pem, b) ==
    IF pem # None /\ ~FromPem(pem[1])
    THEN [ok |-> FALSE, kind |-> "builder", msg |-> "Failed to parse PEM certificate"]
    ELSE IF ~b
    THEN [ok |-> FALSE, kind |-> "builder", msg |-> "Failed to build client!"]
    ELSE [ok |-> TRUE, kind |-> "none", msg |-> ""]

(***************************************************************************)
(* Wire bodies and their deserialization                                   *)
(***************************************************************************)
Garbage == [shape |-> "garbage"]
CatalogJson(r) == [shape |-> "catalog", repositories |-> r]
ImageJson(n, t) == [shape |-> "tags", name |-> n, tags |-> t]
ManifestJson(d) == [shape |-> "manifest", config |-> [digest |-> d]]

\* a field of the blob's config object: "absent", "null", or "val" (present
\* with the value FieldValue gives it)
ConfigFields == {"User", "Env", "Cmd", "WorkingDir", "Labels"}
FieldValue ==
    [User |-> "root", Env |-> <<"PATH=/bin", "A=1">>, Cmd |-> <<"sh", "-c">>,
     WorkingDir |-> "/app", Labels |-> {<<"maintainer", "me">>}]

NoConfig ==
    [present |-> FALSE, User |-> "absent", Env |-> "absent", Cmd |-> "absent",
     WorkingDir |-> "absent", Labels |-> "absent"]
ConfigJson(u, e, c, w, l) ==
    [present |-> TRUE, User |-> u, Env |-> e, Cmd |-> c, WorkingDir |-> w, Labels |-> l]
Configs ==
    {NoConfig, ConfigJson("absent", "absent", "absent", "absent", "absent"),
     ConfigJson("val", "val", "val", "val", "val")}
    \cup {ConfigJson(IF f = "User" THEN "null" ELSE "val",
                     IF f = "Env" THEN "null" ELSE "val",
                     IF f = "Cmd" THEN "null" ELSE "val",
                     IF f = "WorkingDir" THEN "null" ELSE "val",
                     IF f = "Labels" THEN "null" ELSE "val") : f \in ConfigFields}
BlobJson(c) ==
    [shape |-> "blob", architecture |-> "amd64",
     created |-> "2021-01-01T00:00:00Z", config |-> c]

DeOk(v) == [ok |-> TRUE, v |-> <<v>>]
DeErr == [ok |-> FALSE, v |-> <<>>]

\* Option<String> under the container's #[serde(default)]
DeOption(f, v) == DeOk(IF f = "val" THEN Some(v) ELSE None)
\* Vec<String> under the container's #[serde(default)]
DeVec(f, v) == IF f = "absent" THEN DeOk(<<>>) ELSE IF f = "null" THEN DeErr ELSE DeOk(v)
\* HashMap under #[serde(deserialize_with = "deserialize_null_default")]
deserialize_null_default(f, v) == DeOk(IF f = "val" THEN v ELSE {})

ResponseCatalog(json) ==
    IF json.shape = "catalog" THEN DeOk(json.repositories) ELSE DeErr
ResponseImage(json) ==
    IF json.shape = "tags" THEN DeOk([name |-> json.name, tags |-> json.tags]) ELSE DeErr
ResponseManifest(json) ==
    IF json.shape = "manifest" THEN DeOk(json.config.digest) ELSE DeErr

ConfigDetails(c) ==
    LET user == DeOption(c.User, FieldValue.User)
        env == DeVec(c.Env, FieldValue.Env)
        cmd == DeVec(c.Cmd, FieldValue.Cmd)
        working_dir == DeOption(c.WorkingDir, FieldValue.WorkingDir)
        labels == deserialize_null_default(c.Labels, FieldValue.Labels)
    IN  IF ~env.ok \/ ~cmd.ok
        THEN DeErr
        ELSE DeOk([user |-> user.v[1], env |-> env.v[1], cmd |-> cmd.v[1],
                   working_dir |-> working_dir.v[1], labels |-> labels.v[1]])

ResponseConfigBlob(json) ==
    IF json.shape # "blob" \/ ~json.config.present THEN DeErr
    ELSE LET config == ConfigDetails(json.config)
         IN  IF ~config.ok THEN DeErr
             ELSE DeOk([architecture |-> json.architecture,
                        config |-> config.v[1], created |-> json.created])

AduanaImage(name, tags) == [name |-> name, tags |-> tags]

ImageDetails(h, t, blob) ==
    [name |-> h.name, tag |-> t, user |-> blob.config.user, env |-> blob.config.env,
     cmd |-> blob.config.cmd, working_dir |-> blob.config.working_dir,
     labels |-> blob.config.labels, arch |-> blob.architecture,
     created |-> blob.created]

(***************************************************************************)
(* The registry's answers                                                  *)
(***************************************************************************)
Body(json) == [t |-> "body", json |-> json, e |-> ReqwestError("none", None)]
SendErr(error) == [t |-> "err", json |-> Garbage, e |-> error]

\* what send() can fail with once the request is on its way to u
TransportErrors(u) ==
    {ReqwestError("connect", Some(u)), ReqwestError("connect", None),
     ReqwestError("timeout", Some(u))}
Failures(u) == {Body(Garbage)} \cup {SendErr(error) : error \in TransportErrors(u)}

CatalogAnswers(u) == {Body(CatalogJson(r)) : r \in Catalogs} \cup Failures(u)
TagsAnswers(u) == {Body(ImageJson(n, t)) : n \in Names, t \in TagLists} \cup Failures(u)
ManifestAnswers(u) == {Body(ManifestJson(d)) : d \in Digests} \cup Failures(u)
BlobAnswers(u) == {Body(BlobJson(c)) : c \in Configs} \cup Failures(u)

\* the answers of the registries SpecUnchanged ranges over
CoreCatalogAnswers(u) ==
    {Body(CatalogJson(<<"a", "b">>)), Body(CatalogJson(<<"b">>)),
     SendErr(ReqwestError("connect", Some(u)))}
CoreTagsAnswers(u) ==
    {Body(ImageJson("a", <<"t1", "t2">>)), Body(ImageJson("b", <<"t1">>)), Body(Garbage)}
CoreManifestAnswers(u) ==
    {Body(ManifestJson(d)) : d \in Digests} \cup {SendErr(ReqwestError("timeout", Some(u)))}
CoreBlobAnswers(u) ==
    {Body(BlobJson(ConfigJson("val", "val", "val", "val", "val"))),
     Body(BlobJson(ConfigJson("absent", "absent", "absent", "val", "null"))),
     Body(Garbage)}

(***************************************************************************)
(* Steps shared by the calls                                               *)
(***************************************************************************)
\* client(&self.cert)? then client.get(&url).send(): the request is put on
\* the network, or the call fails before it is
Request(u, b) ==
    LET c == client(cert, b)
        error == ReqwestError("builder", None)
    IN  IF ~c.ok
        THEN [sent |-> FALSE, err |-> [stage |-> "client", kind |-> c.kind, url |-> None],
              ret |-> Runtime(c.msg)]
        ELSE IF ~IntoUrl(u)
        THEN [sent |-> FALSE, err |-> ErrAt("send", error), ret |-> FromReqwest(error)]
        ELSE [sent |-> TRUE, err |-> NoErr, ret |-> Pending]

\* the call goes on with a request for u and waits at next, or returns
Proceed(u, b, next, sofar) ==
    LET q == Request(u, b)
    IN  /\ pc' = IF q.sent THEN next ELSE "idle"
        /\ reqs' = IF q.sent THEN Append(sofar, u) ELSE sofar
        /\ err' = q.err
        /\ ret' = q.ret

\* faulty variant: a failure returns what was built so far
FailPartial(e, r) ==
    /\ pc' = "idle"
    /\ reqs' = reqs
    /\ err' = e
    /\ ret' = OkImages(images)

\* the ? operator: the call returns the error r
Fail(e, r) ==
    /\ pc' = "idle"
    /\ reqs' = reqs
    /\ err' = e
    /\ ret' = r

\* Ok(value)
Return(r) ==
    /\ pc' = "idle"
    /\ reqs' = reqs
    /\ err' = NoErr
    /\ ret' = r

DecodeError == ReqwestError("decode", None)

\* the locals of a call that is not running
NoHandle == AduanaImage("", <<>>)

(***************************************************************************)
(* AduanaInspector                                                         *)
(***************************************************************************)
new(u) ==
    /\ url = u
    /\ cert = None

\* chained after new, before the inspector is first used
with_cert(pem) ==
    /\ op = "none"
    /\ cert' = Some(pem)
    /\ UNCHANGED <<url, handles, pc, op, catalog, images, i, self, tag,
                   reqs, resps, err, ret>>

\* images() up to its first await; the caller lets go of the handles of an
\* earlier enumeration when it enumerates again
ImagesCall(b) ==
    /\ pc = "idle"
    /\ op' = "images"
    /\ handles' = <<>>
    /\ catalog' = <<>>
    /\ images' = <<>>
    /\ i' = 0
    /\ resps' = <<>>
    /\ self' = NoHandle
    /\ tag' = ""
    /\ Proceed(CatalogUrl(url), b, "catalog", <<>>)
    /\ UNCHANGED <<url, cert>>

\* images() from the catalog answer to its next await
CatalogResponse(ans, b) ==
    /\ pc = "catalog"
    /\ resps' = Append(resps, ans)
    /\ IF ans.t = "err"
       THEN /\ Fail(ErrAt("send", ans.e), FromReqwest(ans.e))
            /\ UNCHANGED <<catalog, i, handles>>
       ELSE LET parsed == ResponseCatalog(ans.json)
            IN  IF ~parsed.ok
                THEN /\ Fail(ErrAt("json", DecodeError),
                             Runtime("Failed to parse catalog response"))
                     /\ UNCHANGED <<catalog, i, handles>>
                ELSE /\ catalog' = parsed.v[1]
                     /\ IF parsed.v[1] = <<>>
                        THEN /\ Return(OkImages(images))
                             /\ handles' = images
                             /\ i' = i
                        ELSE /\ i' = 1
                             /\ Proceed(TagsUrl(url, parsed.v[1][1]), b, "tags", reqs)
                             /\ handles' = handles
    /\ UNCHANGED <<url, cert, op, images, self, tag>>

\* faulty variant: the handle is named after the catalog entry
HandleOfEntry(entry, image) == AduanaImage(entry, image.tags)

\* the AduanaImage built for the catalog entry from retrieve_image's result
Handle(entry, image) == AduanaImage(image.name, image.tags)

\* faulty variant: the new handle goes to the front of the Vec
pushFront(v, image) == <<image>> \o v

\* images.push(image)
push(v, image) == Append(v, image)

\* images(): retrieve_image's answer, the push, and the next turn of the loop
TagsResponse(ans, b) ==
    /\ pc = "tags"
    /\ resps' = Append(resps, ans)
    /\ IF ans.t = "err"
       THEN /\ Fail(ErrAt("send", ans.e), FromReqwest(ans.e))
            /\ UNCHANGED <<images, i, handles>>
       ELSE LET parsed == ResponseImage(ans.json)
            IN  IF ~parsed.ok
                THEN /\ Fail(ErrAt("json", DecodeError), FromReqwest(DecodeError))
                     /\ UNCHANGED <<images, i, handles>>
                ELSE LET image == parsed.v[1]
                         pushed == push(images, Handle(catalog[i], image))
                     IN  /\ images' = pushed
                         /\ IF i = Len(catalog)
                            THEN /\ Return(OkImages(pushed))
                                 /\ handles' = pushed
                                 /\ i' = i
                            ELSE /\ i' = i + 1
                                 /\ Proceed(TagsUrl(url, catalog[i + 1]), b, "tags", reqs)
                                 /\ handles' = handles
    /\ UNCHANGED <<url, cert, op, catalog, self, tag>>

(***************************************************************************)
(* AduanaImage                                                             *)
(***************************************************************************)
\* details(tag) on the handle h, up to its first await
DetailsCall(h, t, b) ==
    /\ pc = "idle"
    /\ op' = "details"
    /\ self' = h
    /\ tag' = t
    /\ resps' = <<>>
    /\ catalog' = <<>>
    /\ images' = <<>>
    /\ i' = 0
    /\ Proceed(ManifestUrl(url, h.name, t), b, "manifest", <<>>)
    /\ UNCHANGED <<url, cert, handles>>

\* details() from the manifest answer into retrieve_blob, to its await
ManifestResponse(ans, b) ==
    /\ pc = "manifest"
    /\ resps' = Append(resps, ans)
    /\ IF ans.t = "err"
       THEN Fail(ErrAt("send", ans.e), FromReqwest(ans.e))
       ELSE LET manifest == ResponseManifest(ans.json)
            IN  IF ~manifest.ok
                THEN Fail(ErrAt("json", DecodeError), FromReqwest(DecodeError))
                ELSE Proceed(BlobUrl(url, self.name, manifest.v[1]), b, "blob", reqs)
    /\ UNCHANGED <<url, cert, handles, op, catalog, images, i, self, tag>>

\* retrieve_blob's answer and the rest of details()
BlobResponse(ans) ==
    /\ pc = "blob"
    /\ resps' = Append(resps, ans)
    /\ IF ans.t = "err"
       THEN Fail(ErrAt("send", ans.e), FromReqwest(ans.e))
       ELSE LET blob == ResponseConfigBlob(ans.json)
            IN  IF ~blob.ok
                THEN Fail(ErrAt("json", DecodeError), FromReqwest(DecodeError))
                ELSE Return(OkDetails(ImageDetails(self, tag, blob.v[1])))
    /\ UNCHANGED <<url, cert, handles, op, catalog, images, i, self, tag>>

(***************************************************************************)
(* Spec: the registry answers anything                                     *)
(***************************************************************************)
Init ==
    /\ \E u \in BaseUrls : new(u)
    /\ handles = <<>>
    /\ pc = "idle"
    /\ op = "none"
    /\ catalog = <<>>
    /\ images = <<>>
    /\ i = 0
    /\ self = NoHandle
    /\ tag = ""
    /\ reqs = <<>>
    /\ resps = <<>>
    /\ err = NoErr
    /\ ret = Pending
    /\ reg = <<>>
    /\ seen = {}
    /\ calls = 0

\* the request whose answer the call awaits
Awaited == IF reqs = <<>> THEN "" ELSE reqs[Len(reqs)]
Held == {handles[k] : k \in 1..Len(handles)}

WithCert == \E pem \in Pems : with_cert(pem) /\ UNCHANGED <<reg, seen, calls>>
Images == \E b \in BOOLEAN : ImagesCall(b) /\ UNCHANGED <<reg, seen, calls>>
Catalog ==
    \E b \in BOOLEAN : \E ans \in CatalogAnswers(Awaited) :
        CatalogResponse(ans, b) /\ UNCHANGED <<reg, seen, calls>>
RetrieveImage ==
    \E b \in BOOLEAN : \E ans \in TagsAnswers(Awaited) :
        TagsResponse(ans, b) /\ UNCHANGED <<reg, seen, calls>>
Details ==
    \E b \in BOOLEAN : \E h \in Held : \E t \in Tags :
        DetailsCall(h, t, b) /\ UNCHANGED <<reg, seen, calls>>
Manifest ==
    \E b \in BOOLEAN : \E ans \in ManifestAnswers(Awaited) :
        ManifestResponse(ans, b) /\ UNCHANGED <<reg, seen, calls>>
RetrieveBlob ==
    \E ans \in BlobAnswers(Awaited) : BlobResponse(ans) /\ UNCHANGED <<reg, seen, calls>>

Next ==
    \/ WithCert
    \/ Images
    \/ Catalog
    \/ RetrieveImage
    \/ Details
    \/ Manifest
    \/ RetrieveBlob

Spec == Init /\ [][Next]_vars

(***************************************************************************)
(* SpecUnchanged: the registry is unchanged, the client always builds      *)
(***************************************************************************)
\* the answers an unchanged registry can give to u: the one it gave before
Known(u, fresh) == IF u \in DOMAIN reg THEN {reg[u]} ELSE fresh
Learn(u, ans) ==
    reg' = [x \in DOMAIN reg \cup {u} |-> IF x = u THEN ans ELSE reg[x]]
\* a details() call that returns is recorded with what it returned
Remember ==
    seen' = IF pc' = "idle"
            THEN seen \cup {[name |-> self'.name, tag |-> tag', ret |-> ret',
                             call |-> calls']}
            ELSE seen

UImages ==
    /\ calls < MaxCalls
    /\ ImagesCall(TRUE)
    /\ calls' = calls + 1
    /\ UNCHANGED <<reg, seen>>
UCatalog ==
    \E ans \in Known(Awaited, CoreCatalogAnswers(Awaited)) :
        CatalogResponse(ans, TRUE) /\ Learn(Awaited, ans) /\ UNCHANGED <<seen, calls>>
URetrieveImage ==
    \E ans \in Known(Awaited, CoreTagsAnswers(Awaited)) :
        TagsResponse(ans, TRUE) /\ Learn(Awaited, ans) /\ UNCHANGED <<seen, calls>>
UDetails ==
    /\ calls < MaxCalls
    /\ calls' = calls + 1
    /\ \E h \in Held : \E t \in Tags : DetailsCall(h, t, TRUE) /\ Remember
    /\ UNCHANGED reg
UManifest ==
    \E ans \in Known(Awaited, CoreManifestAnswers(Awaited)) :
        ManifestResponse(ans, TRUE) /\ Learn(Awaited, ans) /\ UNCHANGED calls /\ Remember
URetrieveBlob ==
    \E ans \in Known(Awaited, CoreBlobAnswers(Awaited)) :
        BlobResponse(ans) /\ Learn(Awaited, ans) /\ UNCHANGED calls /\ Remember

NextUnchanged ==
    \/ UImages
    \/ UCatalog
    \/ URetrieveImage
    \/ UDetails
    \/ UManifest
    \/ URetrieveBlob

SpecUnchanged == Init /\ [][NextUnchanged]_vars

(***************************************************************************)
(* Properties                                                              *)
(***************************************************************************)
\* the four endpoints, as the claims name them
GetCatalog == url \o "/v2/_catalog"
GetTags(n) == url \o "/v2/" \o n \o "/tags/list"
GetManifest(n, t) == url \o "/v2/" \o n \o "/manifests/" \o t
GetBlob(n, d) == url \o "/v2/" \o n \o "/blobs/" \o d

Returned(o) == pc = "idle" /\ op = o
Failed == ret.tag \in {"Connection", "Runtime"}
Last(v) == v[Len(v)]
IsPrefix(v, w) == Len(v) <= Len(w) /\ \A k \in 1..Len(v) : v[k] = w[k]

\* the k-th answer of the running call is a failure: the transport failed, or
\* the body does not deserialize into the type the call expects at that point
Unparsable(k) ==
    IF op = "images"
    THEN IF k = 1 THEN ~ResponseCatalog(resps[k].json).ok
                  ELSE ~ResponseImage(resps[k].json).ok
    ELSE IF k = 1 THEN ~ResponseManifest(resps[k].json).ok
                  ELSE ~ResponseConfigBlob(resps[k].json).ok
Malformed(k) == resps[k].t = "body" /\ Unparsable(k)
FailedAnswer(k) == resps[k].t = "err" \/ Malformed(k)

\* requests go out one at a time, and a failed answer ends the call at once
\* with an error
OneAtATime ==
    /\ Len(reqs) = Len(resps) + (IF pc = "idle" THEN 0 ELSE 1)
    /\ \A k \in 1..Len(resps) :
          FailedAnswer(k) => k = Len(resps) /\ pc = "idle" /\ Failed
    /\ err.stage # "none" => pc = "idle" /\ Failed
    /\ pc = "idle" /\ op # "none" => Failed \/ ret.tag = "Ok"

\* the requests images() makes for the catalog it parsed
ImagesRequests ==
    <<GetCatalog>> \o [k \in 1..Len(catalog) |-> GetTags(catalog[k])]

\* C1: when every request and parse succeeds, images() returns one handle per
\* catalog entry, in catalog order, the k-th handle carrying the tag list of
\* the answer to the tags/list request for the k-th entry, in that answer's order.
C1_CatalogOrder ==
    /\ Returned("images") /\ Len(resps) = Len(catalog) + 1
       /\ (\A k \in 1..Len(resps) : ~FailedAnswer(k)) => ret.tag = "Ok"
    /\ Returned("images") /\ ret.tag = "Ok" =>
          /\ catalog = resps[1].json.repositories
          /\ Len(ret.images) = Len(catalog)
          /\ \A k \in 1..Len(catalog) :
                /\ reqs[k + 1] = GetTags(catalog[k])
                /\ resps[k + 1].t = "body"
                /\ ret.images[k].tags = resps[k + 1].json.tags

C1_Witness ==
    /\ Returned("images") /\ ret.tag = "Ok"
    /\ catalog = <<"b", "a">>
    /\ resps[2].json.tags = <<"t2", "t1">>
    /\ resps[3].json.tags = <<"t1", "t1">>
    /\ Len(ret.images) = 2

\* C2: images() never returns partial results: its requests are a prefix of
\* [catalog, tags/list(r1), ..., tags/list(rN)], issued one after another; a
\* failed request or parse makes it return an error that carries no handle,
\* with no request after the failed one and no retry of it.
C2_NoPartialResults ==
    op = "images" =>
        /\ IsPrefix(reqs, ImagesRequests)
        /\ OneAtATime
        /\ ret.tag = "Ok" => pc = "idle" /\ reqs = ImagesRequests
        /\ ret.tag # "Ok" => ret.images = <<>> /\ handles = <<>>

C2_Witness ==
    /\ Returned("images") /\ Failed
    /\ Len(catalog) = 2
    /\ Len(images) = 1
    /\ Len(reqs) = 3
    /\ FailedAnswer(3)
    /\ ret.images = <<>>

\* the requests details() makes once it has the manifest's digest
DetailsRequests(digest) ==
    <<GetManifest(self.name, tag), GetBlob(self.name, digest)>>

\* C3: details(tag) on a handle named n issues a prefix of exactly two
\* requests, the manifest of n at tag and then the blob of n at the digest of
\* that manifest answer; the blob request follows the parsed manifest answer,
\* success means both were issued once in that order, and a failure returns an
\* error at once with no further request.
C3_ManifestThenBlob ==
    op = "details" =>
        /\ Len(reqs) <= 2
        /\ Len(reqs) >= 1 => reqs[1] = GetManifest(self.name, tag)
        /\ Len(reqs) = 2 =>
              /\ resps[1].t = "body"
              /\ ResponseManifest(resps[1].json).ok
              /\ reqs = DetailsRequests(resps[1].json.config.digest)
        /\ OneAtATime
        /\ ret.tag = "Ok" => pc = "idle" /\ Len(reqs) = 2 /\ Len(resps) = 2

C3_Witness ==
    /\ Returned("details") /\ ret.tag = "Ok"
    /\ resps[1].json.config.digest = "sha256:2"
    /\ self.name = "b" /\ tag = "t2"
    /\ Len(reqs) = 2

\* the blob answer a returned details() call got, if it got that far
BlobAnswered ==
    /\ Returned("details")
    /\ Len(resps) = 2
    /\ resps[2].t = "body"
    /\ resps[2].json.shape = "blob"

\* C4: a config blob whose config object has a field set to null makes
\* details() succeed with that field's empty default: Labels {} , Env [],
\* Cmd [], WorkingDir None, User None, whatever the other fields are.
C4_NullFieldsDefault ==
    BlobAnswered /\ resps[2].json.config.present
    /\ (\E f \in ConfigFields : resps[2].json.config[f] = "null") =>
        /\ ret.tag = "Ok"
        /\ LET c == resps[2].json.config
               d == ret.details[1]
           IN  /\ c.Labels = "null" => d.labels = {}
               /\ c.Env = "null" => d.env = <<>>
               /\ c.Cmd = "null" => d.cmd = <<>>
               /\ c.WorkingDir = "null" => d.working_dir = None
               /\ c.User = "null" => d.user = None

\* C5: a config blob in which only architecture and created are present makes
\* details() succeed with all-default config fields and the blob's
\* architecture and creation time.
C5_MissingConfigDefault ==
    BlobAnswered /\ ~resps[2].json.config.present =>
        /\ ret.tag = "Ok"
        /\ LET d == ret.details[1]
           IN  /\ d.user = None /\ d.env = <<>> /\ d.cmd = <<>>
               /\ d.working_dir = None /\ d.labels = {}
               /\ d.arch = resps[2].json.architecture
               /\ d.created = resps[2].json.created

\* a call that ended on a connect-phase transport error returned a Connection
\* error with the URL the transport error carries, or "invalid" if it has none
ConnectIsConnection ==
    pc = "idle" /\ resps # <<>> /\ Last(resps).t = "err"
    /\ Last(resps).e.kind = "connect" =>
        /\ ret.tag = "Connection"
        /\ ret.url = IF Last(resps).e.url = None THEN "invalid" ELSE Last(resps).e.url[1]

\* C6 as stated: a request that fails in the connect phase or cannot be built
\* gives a Connection error with the error's URL or "invalid"; on an inspector
\* with an unparsable base URL images() always fails with Connection
\* {url: "invalid"}.
C6_WrongUrlAlwaysConnection ==
    /\ ConnectIsConnection
    /\ url = WrongUrl /\ Returned("images") =>
          ret.tag = "Connection" /\ ret.url = "invalid"

\* C6 amended: a request that fails in the connect phase or cannot be built
\* gives a Connection error with the error's URL or "invalid"; on an inspector
\* with an unparsable base URL no request reaches the network and no call
\* returns a result, and images() fails with Connection {url: "invalid"}
\* whenever its client could be constructed (with Runtime when it could not).
C6_ConnectionUrl ==
    /\ ConnectIsConnection
    /\ url = WrongUrl => reqs = <<>> /\ ret.tag # "Ok"
    /\ url = WrongUrl /\ Returned("images") =>
          IF err.stage = "client"
          THEN ret.tag = "Runtime"
          ELSE ret.tag = "Connection" /\ ret.url = "invalid"

C6_Witness ==
    /\ url = WrongUrl
    /\ Returned("images")
    /\ err.kind = "builder" /\ err.stage = "send"
    /\ ret.tag = "Connection"
    /\ ret.url = "invalid"

\* C7: a call whose last answer was received but does not parse into the
\* expected shape (catalog, tags/list, manifest, config blob) fails with a
\* Runtime error, never a Connection error.
C7_MalformedIsRuntime ==
    pc = "idle" /\ resps # <<>> /\ Malformed(Len(resps)) => ret.tag = "Runtime"

C7_Witness ==
    /\ Returned("images")
    /\ resps = <<Body(Garbage)>>
    /\ ret = Runtime("Failed to parse catalog response")

\* C8: on an inspector whose certificate does not parse, every call fails with
\* a Runtime error and without any request; whenever the client cannot be
\* constructed the call fails with a Runtime error and that step issues no request.
C8_BadCertIsRuntime ==
    /\ cert # None /\ ~FromPem(cert[1]) /\ op # "none" =>
          pc = "idle" /\ ret.tag = "Runtime" /\ reqs = <<>> /\ resps = <<>>
    /\ err.stage = "client" =>
          pc = "idle" /\ ret.tag = "Runtime" /\ Len(reqs) = Len(resps)

C8_Witness ==
    /\ cert = Some(BadPem)
    /\ url = GoodUrl
    /\ Returned("images")
    /\ ret = Runtime("Failed to parse PEM certificate")
    /\ reqs = <<>>

\* C9: against an unchanged registry, all details() calls for the same
\* repository and tag return the same thing, whatever calls came between them:
\* identical ImageDetails, or an error of the same class.
C9_DetailsIdempotent ==
    \A x \in seen : \A y \in seen :
        x.name = y.name /\ x.tag = y.tag =>
            /\ x.ret.tag = y.ret.tag
            /\ x.ret.tag = "Ok" => x.ret.details = y.ret.details

C9_Witness ==
    \E x \in seen : \E y \in seen :
        /\ x.name = y.name /\ x.tag = y.tag
        /\ x.call + 1 < y.call
        /\ x.ret.tag = "Ok"
        /\ \E z \in seen : z.call = x.call + 1 /\ z.ret.tag # "Ok"

\* C10: a handle's name and tags are those of the body of the tags/list answer;
\* the catalog entry only builds that request's URL.  details(tag) builds its
\* manifest and blob URLs from the handle's name, and ImageDetails carries
\* that name and the requested tag, in the handle's tag list or not.
C10_NameFromTagsBody ==
    /\ Returned("images") /\ ret.tag = "Ok" =>
          \A k \in 1..Len(ret.images) :
              /\ reqs[k + 1] = GetTags(catalog[k])
              /\ ret.images[k] = AduanaImage(resps[k + 1].json.name, resps[k + 1].json.tags)
    /\ op = "details" =>
          /\ self \in Held
          /\ \A k \in 1..Len(reqs) :
                reqs[k] \in {GetManifest(self.name, tag)}
                            \cup {GetBlob(self.name, d) : d \in Digests}
          /\ ret.tag = "Ok" =>
                ret.details[1].name = self.name /\ ret.details[1].tag = tag

C10_Witness ==
    /\ Returned("images") /\ ret.tag = "Ok"
    /\ catalog = <<"a", "a">>
    /\ ret.images[1].name = "b"
    /\ ret.images[2].name = "b"
    /\ handles = ret.images

====
